---- MODULE Spec2Model ----
(***************************************************************************)
(* povo-promo-code-notify: the status engine, the coverage calculator, the *)
(* next-candidate selector and the notification scheduler.                 *)
(*                                                                         *)
(* Instants are integers.  The source measures them in milliseconds; the   *)
(* model measures them in ticks, MsPerMinute ticks to the minute (60000 in *)
(* the source), and the longest single-shot delay is MAX_TIMEOUT ticks     *)
(* (2147483647 ms in the source).  A nullable field holds the empty        *)
(* sequence for null and a one-element sequence otherwise.                 *)
(***************************************************************************)
EXTENDS Integers, Sequences, FiniteSets, TLC

VARIABLES
  codes,                  \* the code list: a function's argument, or the scheduler's this.codes
  now,                    \* the reference instant / the wall clock
  result,                 \* what the last call of a pure function returned
  settings,               \* scheduler: this.settings (Null before the first start)
  scheduledNotifications, \* scheduler: Map notificationId -> ScheduledNotification
  firedNotifications,     \* scheduler: Set of fired keys
  checkIntervalId,        \* scheduler: handle of the periodic check, or Null
  timers,                 \* event loop: pending setTimeout handles -> [key, due]
  intervals,              \* event loop: active setInterval handles -> next due instant
  shown,                  \* history: how often notification.show() ran, per key
  lastOp,                 \* history: the operation that ran last, with what it did
  eligibleSeen,           \* history: the keys eligible at some instant since the code list and settings were last set
  store                   \* persistence: the electron-store file [version, codes, notificationSettings]

vars == <<codes, now, result, settings, scheduledNotifications, firedNotifications,
          checkIntervalId, timers, intervals, shown, lastOp, eligibleSeen, store>>

schedVars == <<settings, scheduledNotifications, firedNotifications, checkIntervalId,
               timers, intervals, shown, lastOp, eligibleSeen>>

----------------------------------------------------------------------------
(* Bounds and scaled constants *)

MsPerMinute == 2
MAX_TIMEOUT == 3
MaxNow == 4
MaxTime == 4
MaxOrder == 2
MaxShown == 2

CHECK_INTERVAL_MS == MsPerMinute

Null == <<>>
Some(v) == <<v>>
Val(o) == o[1]

CodeIds == {1, 2, 3}

PromoCode(id, order, inputDeadline, startedAt, expiresAt) ==
  [id |-> id, order |-> order, inputDeadline |-> inputDeadline,
   startedAt |-> startedAt, expiresAt |-> expiresAt]

NoResult == [fn |-> "none"]

Max(S) == CHOOSE x \in S : \A y \in S : y <= x

SeqToSet(s) == {s[i] : i \in 1..Len(s)}

----------------------------------------------------------------------------
(* Status engine *)

\* Variant: the deadline instant itself already counts as expired.
determineCodeStatusStrictDeadline(code, t) ==
  IF code.startedAt # Null /\ code.expiresAt # Null
    THEN IF t <= Val(code.expiresAt) THEN "active" ELSE "consumed"
    ELSE IF t < code.inputDeadline THEN "unused" ELSE "expired"

\* Variant: the input deadline is looked at before the activation.
determineCodeStatusDeadlineFirst(code, t) ==
  IF t > code.inputDeadline THEN "expired"
  ELSE IF code.startedAt # Null /\ code.expiresAt # Null
    THEN IF t <= Val(code.expiresAt) THEN "active" ELSE "consumed"
    ELSE "unused"

\* Variant: a started code counts as unused until its startedAt is reached.
determineCodeStatusFromStart(code, t) ==
  IF code.startedAt # Null /\ code.expiresAt # Null
    THEN IF t < Val(code.startedAt) THEN "unused"
         ELSE IF t <= Val(code.expiresAt) THEN "active" ELSE "consumed"
    ELSE IF t <= code.inputDeadline THEN "unused" ELSE "expired"

determineCodeStatus(code, t) ==
  IF code.startedAt # Null /\ code.expiresAt # Null
    THEN IF t <= Val(code.expiresAt) THEN "active" ELSE "consumed"
    ELSE IF t <= code.inputDeadline THEN "unused" ELSE "expired"

filterByStatus(cs, status, t) ==
  SelectSeq(cs, LAMBDA c : determineCodeStatus(c, t) = status)

getActiveCodes(cs, t) == filterByStatus(cs, "active", t)

getUnusedCodes(cs, t) == filterByStatus(cs, "unused", t)

----------------------------------------------------------------------------
(* Coverage calculator *)

TimeInterval(start, end) == [start |-> start, end |-> end]

extractIntervals(cs, t) ==
  LET active == SelectSeq(getActiveCodes(cs, t),
                          LAMBDA c : c.startedAt # Null /\ c.expiresAt # Null)
  IN  [i \in 1..Len(active) |->
         TimeInterval(Val(active[i].startedAt), Val(active[i].expiresAt))]

\* Array.prototype.sort is stable: x goes behind every element that does not
\* compare greater than it.
RECURSIVE InsertByStart(_, _)
InsertByStart(sorted, x) ==
  IF sorted = <<>> THEN <<x>>
  ELSE IF sorted[Len(sorted)].start - x.start <= 0 THEN Append(sorted, x)
  ELSE Append(InsertByStart(SubSeq(sorted, 1, Len(sorted) - 1), x), sorted[Len(sorted)])

RECURSIVE sortIntervalsByStart(_)
sortIntervalsByStart(ivs) ==
  IF ivs = <<>> THEN <<>>
  ELSE InsertByStart(sortIntervalsByStart(SubSeq(ivs, 1, Len(ivs) - 1)), ivs[Len(ivs)])

\* Variant: an interval that has not begun counts as containing now.
getIntervalsContainingNowEndOnly(ivs, nowTime) ==
  {i \in 1..Len(ivs) : nowTime <= ivs[i].end}

\* Indices stand for the object identities the source keeps in its Set.
getIntervalsContainingNow(ivs, nowTime) ==
  {i \in 1..Len(ivs) : ivs[i].start <= nowTime /\ nowTime <= ivs[i].end}

\* Variant: only an interval that starts strictly before coverageEnd is absorbed.
RECURSIVE ScanIntervalsStrict(_, _, _)
ScanIntervalsStrict(ivs, i, st) ==
  IF i > Len(ivs) THEN st
  ELSE IF i \in st.used THEN ScanIntervalsStrict(ivs, i + 1, st)
  ELSE IF ivs[i].start < st.coverageEnd
    THEN ScanIntervalsStrict(ivs, i + 1,
           [coverageEnd |-> IF ivs[i].end > st.coverageEnd THEN ivs[i].end
                            ELSE st.coverageEnd,
            extended    |-> st.extended \/ ivs[i].end > st.coverageEnd,
            used        |-> st.used \cup {i}])
  ELSE ScanIntervalsStrict(ivs, i + 1, st)

\* Variant: an absorbed interval is not added to usedIntervals.
RECURSIVE ScanIntervalsForgetsUsed(_, _, _)
ScanIntervalsForgetsUsed(ivs, i, st) ==
  IF i > Len(ivs) THEN st
  ELSE IF i \in st.used THEN ScanIntervalsForgetsUsed(ivs, i + 1, st)
  ELSE IF ivs[i].start <= st.coverageEnd
    THEN ScanIntervalsForgetsUsed(ivs, i + 1,
           [coverageEnd |-> IF ivs[i].end > st.coverageEnd THEN ivs[i].end
                            ELSE st.coverageEnd,
            extended    |-> st.extended \/ ivs[i].end > st.coverageEnd,
            used        |-> st.used])
  ELSE ScanIntervalsForgetsUsed(ivs, i + 1, st)

\* One pass of the for loop, from interval i on.
RECURSIVE ScanIntervals(_, _, _)
ScanIntervals(ivs, i, st) ==
  IF i > Len(ivs) THEN st
  ELSE IF i \in st.used THEN ScanIntervals(ivs, i + 1, st)
  ELSE IF ivs[i].start <= st.coverageEnd
    THEN ScanIntervals(ivs, i + 1,
           [coverageEnd |-> IF ivs[i].end > st.coverageEnd THEN ivs[i].end
                            ELSE st.coverageEnd,
            extended    |-> st.extended \/ ivs[i].end > st.coverageEnd,
            used        |-> st.used \cup {i}])
  ELSE ScanIntervals(ivs, i + 1, st)

\* while (extended) { extended = false; for (...) ... }
RECURSIVE ExtendCoverage(_, _)
ExtendCoverage(ivs, st) ==
  IF st.extended
    THEN ExtendCoverage(ivs, ScanIntervals(ivs, 1, [st EXCEPT !.extended = FALSE]))
    ELSE st

\* Variant: the gap is reported at the start of the next interval.
calculateCoverageEndNextStart(ivs, nowTime) ==
  LET containing == getIntervalsContainingNow(ivs, nowTime)
  IN  IF containing = {}
        THEN [coverageEnd |-> Null, gapStart |-> Null]
        ELSE LET st == ExtendCoverage(ivs,
                         [coverageEnd |-> Max({ivs[i].end : i \in containing}),
                          extended    |-> TRUE,
                          used        |-> containing])
                 future == {i \in 1..Len(ivs) :
                              i \notin st.used /\ ivs[i].start > st.coverageEnd}
             IN  [coverageEnd |-> Some(st.coverageEnd),
                  gapStart    |-> IF future # {}
                                    THEN Some(0 - Max({0 - ivs[i].start : i \in future}))
                                    ELSE Null]

\* Variant: coverage begins at the end of the last interval containing now,
\* not at the latest end among them.
calculateCoverageEndLastContaining(ivs, nowTime) ==
  LET containing == getIntervalsContainingNow(ivs, nowTime)
  IN  IF containing = {}
        THEN [coverageEnd |-> Null, gapStart |-> Null]
        ELSE LET st == ExtendCoverage(ivs,
                         [coverageEnd |-> ivs[Max(containing)].end,
                          extended    |-> TRUE,
                          used        |-> containing])
                 future == {i \in 1..Len(ivs) :
                              i \notin st.used /\ ivs[i].start > st.coverageEnd}
             IN  [coverageEnd |-> Some(st.coverageEnd),
                  gapStart    |-> IF future # {} THEN Some(st.coverageEnd) ELSE Null]

\* Variant: the end of the first interval containing now is the coverage end,
\* with no extension.
calculateCoverageEndFirstContaining(ivs, nowTime) ==
  LET containing == getIntervalsContainingNow(ivs, nowTime)
  IN  IF containing = {}
        THEN [coverageEnd |-> Null, gapStart |-> Null]
        ELSE LET first == CHOOSE i \in containing : \A j \in containing : i <= j
                 coverageEnd == ivs[first].end
                 future == {i \in 1..Len(ivs) : ivs[i].start > coverageEnd}
             IN  [coverageEnd |-> Some(coverageEnd),
                  gapStart    |-> IF future # {} THEN Some(coverageEnd) ELSE Null]

calculateCoverageEnd(ivs, nowTime) ==
  LET containing == getIntervalsContainingNow(ivs, nowTime)
  IN  IF containing = {}
        THEN [coverageEnd |-> Null, gapStart |-> Null]
        ELSE LET st == ExtendCoverage(ivs,
                         [coverageEnd |-> Max({ivs[i].end : i \in containing}),
                          extended    |-> TRUE,
                          used        |-> containing])
                 future == {i \in 1..Len(ivs) :
                              i \notin st.used /\ ivs[i].start > st.coverageEnd}
             IN  [coverageEnd |-> Some(st.coverageEnd),
                  gapStart    |-> IF future # {} THEN Some(st.coverageEnd) ELSE Null]

NoCoverage ==
  [hasCoverage |-> FALSE, coverageEndAt |-> Null, remainingMinutes |-> Null,
   hasGap |-> FALSE, gapStartAt |-> Null]

\* Variant: a started minute counts as a whole one.
calculateCoverageRoundsUp(cs, t) ==
  LET ivs == extractIntervals(cs, t)
  IN  IF Len(ivs) = 0 THEN NoCoverage
      ELSE LET r == calculateCoverageEnd(sortIntervalsByStart(ivs), t)
           IN  IF r.coverageEnd = Null THEN NoCoverage
               ELSE LET remainingMs == Val(r.coverageEnd) - t
                        minutes == (remainingMs + MsPerMinute - 1) \div MsPerMinute
                    IN  [hasCoverage      |-> TRUE,
                         coverageEndAt    |-> r.coverageEnd,
                         remainingMinutes |-> Some(IF minutes > 0 THEN minutes ELSE 0),
                         hasGap           |-> r.gapStart # Null,
                         gapStartAt       |-> r.gapStart]

calculateCoverage(cs, t) ==
  LET ivs == extractIntervals(cs, t)
  IN  IF Len(ivs) = 0 THEN NoCoverage
      ELSE LET r == calculateCoverageEnd(sortIntervalsByStart(ivs), t)
           IN  IF r.coverageEnd = Null THEN NoCoverage
               ELSE LET remainingMs == Val(r.coverageEnd) - t
                        minutes == remainingMs \div MsPerMinute
                    IN  [hasCoverage      |-> TRUE,
                         coverageEndAt    |-> r.coverageEnd,
                         remainingMinutes |-> Some(IF minutes > 0 THEN minutes ELSE 0),
                         hasGap           |-> r.gapStart # Null,
                         gapStartAt       |-> r.gapStart]

----------------------------------------------------------------------------
(* Next-candidate selector *)

\* Variant: no tie-break on the id.
CompareCandidatesOrderOnly(a, b) == a.order - b.order

\* The sort comparator: order ascending, then id ascending.  Ids are
\* totally ordered; the model takes them as integers.
CompareCandidates(a, b) ==
  IF a.order # b.order THEN a.order - b.order
  ELSE IF a.id < b.id THEN 0 - 1 ELSE IF a.id > b.id THEN 1 ELSE 0

RECURSIVE InsertCandidate(_, _)
InsertCandidate(sorted, x) ==
  IF sorted = <<>> THEN <<x>>
  ELSE IF CompareCandidates(sorted[Len(sorted)], x) <= 0 THEN Append(sorted, x)
  ELSE Append(InsertCandidate(SubSeq(sorted, 1, Len(sorted) - 1), x), sorted[Len(sorted)])

RECURSIVE SortCandidates(_)
SortCandidates(cs) ==
  IF cs = <<>> THEN <<>>
  ELSE InsertCandidate(SortCandidates(SubSeq(cs, 1, Len(cs) - 1)), cs[Len(cs)])

\* Variant: the first unused code of the list, unsorted.
getNextCandidateFirstUnused(cs, t) ==
  LET unusedCodes == getUnusedCodes(cs, t)
  IN  IF Len(unusedCodes) = 0
        THEN [hasCandidate |-> FALSE, candidate |-> Null]
        ELSE [hasCandidate |-> TRUE, candidate |-> Some(unusedCodes[1])]

getNextCandidate(cs, t) ==
  LET unusedCodes == getUnusedCodes(cs, t)
  IN  IF Len(unusedCodes) = 0
        THEN [hasCandidate |-> FALSE, candidate |-> Null]
        ELSE [hasCandidate |-> TRUE, candidate |-> Some(SortCandidates(unusedCodes)[1])]

----------------------------------------------------------------------------
(* Notification scheduler *)

NotificationSettings(expiry, inputDeadline) ==
  [expiryThresholdsMinutes |-> expiry, inputDeadlineThresholdsMinutes |-> inputDeadline]

\* `${codeId}-${type}-${thresholdMinutes}`: one string per triple.
createFiredKey(codeId, type, thresholdMinutes) ==
  [codeId |-> codeId, type |-> type, thresholdMinutes |-> thresholdMinutes]

EmptyMap == [k \in {} |-> {}]

MapPut(f, k, v) == [x \in DOMAIN f \cup {k} |-> IF x = k THEN v ELSE f[x]]

MapRemove(f, ks) == [x \in DOMAIN f \ ks |-> f[x]]

\* A handle no live timer has: the event loop hands out a new object.
FreshHandle(f) == CHOOSE h \in 1..(Cardinality(DOMAIN f) + 1) : h \notin DOMAIN f

\* Variant: a timer is armed whatever its delay.
scheduleNotificationNoHorizon(st, key, notifyAt, t) ==
  IF key \in DOMAIN st.sched THEN st
  ELSE LET delay == notifyAt - t
           timerId == FreshHandle(st.timers)
       IN  [sched  |-> MapPut(st.sched, key, [timerId |-> timerId, scheduledAt |-> notifyAt]),
            timers |-> MapPut(st.timers, timerId, [key |-> key, due |-> t + delay])]

\* Variant: a key that is in the map already is armed once more.
scheduleNotificationArmsAgain(st, key, notifyAt, t) ==
  LET delay == notifyAt - t
      timerId == FreshHandle(st.timers)
  IN  IF delay > MAX_TIMEOUT THEN st
      ELSE [sched  |-> MapPut(st.sched, key,
                         [timerId |-> timerId, scheduledAt |-> notifyAt]),
            timers |-> MapPut(st.timers, timerId, [key |-> key, due |-> t + delay])]

\* The scheduler's two maps as one value st = [sched, timers] while a handler runs.
scheduleNotification(st, key, notifyAt, t) ==
  IF key \in DOMAIN st.sched THEN st
  ELSE LET delay == notifyAt - t
           timerId == FreshHandle(st.timers)
       IN  IF delay > MAX_TIMEOUT THEN st
           ELSE [sched  |-> MapPut(st.sched, key,
                              [timerId |-> timerId, scheduledAt |-> notifyAt]),
                 timers |-> MapPut(st.timers, timerId, [key |-> key, due |-> t + delay])]

\* Variant: a key that has fired is scheduled like any other.
RECURSIVE ScheduleThresholdsIgnoreFired(_, _, _, _, _, _, _, _)
ScheduleThresholdsIgnoreFired(st, codeId, type, target, thresholds, i, fired, t) ==
  IF i > Len(thresholds) THEN st
  ELSE LET thresholdMinutes == thresholds[i]
           notifyAt == target - thresholdMinutes * MsPerMinute
           firedKey == createFiredKey(codeId, type, thresholdMinutes)
           next == IF notifyAt <= t THEN st
                   ELSE scheduleNotification(st, firedKey, notifyAt, t)
       IN  ScheduleThresholdsIgnoreFired(next, codeId, type, target, thresholds, i + 1,
                                         fired, t)

\* The loop over one threshold list, from threshold i on; target is the
\* code's expiresAt or inputDeadline.
RECURSIVE ScheduleThresholds(_, _, _, _, _, _, _, _)
ScheduleThresholds(st, codeId, type, target, thresholds, i, fired, t) ==
  IF i > Len(thresholds) THEN st
  ELSE LET thresholdMinutes == thresholds[i]
           notifyAt == target - thresholdMinutes * MsPerMinute
           firedKey == createFiredKey(codeId, type, thresholdMinutes)
           next == IF notifyAt <= t THEN st
                   ELSE IF firedKey \in fired THEN st
                   ELSE scheduleNotification(st, firedKey, notifyAt, t)
       IN  ScheduleThresholds(next, codeId, type, target, thresholds, i + 1, fired, t)

scheduleExpiryNotifications(st, code, stg, fired, t) ==
  IF code.expiresAt = Null THEN st
  ELSE ScheduleThresholds(st, code.id, "expiry", Val(code.expiresAt),
                          stg.expiryThresholdsMinutes, 1, fired, t)

scheduleInputDeadlineNotifications(st, code, stg, fired, t) ==
  ScheduleThresholds(st, code.id, "inputDeadline", code.inputDeadline,
                     stg.inputDeadlineThresholdsMinutes, 1, fired, t)

\* The loop over this.codes, from code i on.
RECURSIVE ScheduleCodes(_, _, _, _, _, _)
ScheduleCodes(st, cs, i, stg, fired, t) ==
  IF i > Len(cs) THEN st
  ELSE LET code == cs[i]
           status == determineCodeStatus(code, t)
           st1 == IF status = "active" /\ code.expiresAt # Null
                    THEN scheduleExpiryNotifications(st, code, stg, fired, t)
                    ELSE st
           st2 == IF status = "unused"
                    THEN scheduleInputDeadlineNotifications(st1, code, stg, fired, t)
                    ELSE st1
       IN  ScheduleCodes(st2, cs, i + 1, stg, fired, t)

scheduleAllNotifications(st, cs, stgOpt, fired, t) ==
  IF stgOpt = Null THEN st
  ELSE ScheduleCodes(st, cs, 1, Val(stgOpt), fired, t)

\* Variant: the map is emptied, the timers it held are not cancelled.
clearAllScheduledKeepsTimers(st) ==
  [sched |-> EmptyMap, timers |-> st.timers]

clearAllScheduled(st) ==
  [sched  |-> EmptyMap,
   timers |-> MapRemove(st.timers, {st.sched[k].timerId : k \in DOMAIN st.sched})]

reschedule(st, cs, stgOpt, fired, t) ==
  scheduleAllNotifications(clearAllScheduled(st), cs, stgOpt, fired, t)

\* Variant: the handle is kept, no interval is set up.
startPeriodicCheckNoInterval(idOpt, ivs, t) ==
  LET cleared == IF idOpt # Null THEN MapRemove(ivs, {Val(idOpt)}) ELSE ivs
      h == FreshHandle(cleared)
  IN  [id |-> Some(h), ivs |-> cleared]

\* Variant: an interval that runs already is left running beside the new one.
startPeriodicCheckKeepsOld(idOpt, ivs, t) ==
  LET h == FreshHandle(ivs)
  IN  [id |-> Some(h), ivs |-> MapPut(ivs, h, t + CHECK_INTERVAL_MS)]

\* [id, ivs]: the new checkIntervalId and the event loop's intervals.
startPeriodicCheck(idOpt, ivs, t) ==
  LET cleared == IF idOpt # Null THEN MapRemove(ivs, {Val(idOpt)}) ELSE ivs
      h == FreshHandle(cleared)
  IN  [id |-> Some(h), ivs |-> MapPut(cleared, h, t + CHECK_INTERVAL_MS)]

\* Variant: the handle is forgotten, the interval is not cleared.
stopPeriodicCheckKeepsInterval(idOpt, ivs) ==
  [id |-> Null, ivs |-> ivs]

stopPeriodicCheck(idOpt, ivs) ==
  IF idOpt # Null THEN [id |-> Null, ivs |-> MapRemove(ivs, {Val(idOpt)})]
  ELSE [id |-> idOpt, ivs |-> ivs]

\* Variant: the fired key stays in the map of scheduled notifications.
fireNotificationKeepsEntry(sched, fired, key) ==
  [fired |-> fired \cup {key}, sched |-> sched]

\* The head of fireNotification: record the key as fired, drop its entry.
fireNotification(sched, fired, key) ==
  [fired |-> fired \cup {key}, sched |-> MapRemove(sched, {key})]

\* this.codes.find((c) => c.id === codeId): Null, or the first match.
FindCode(cs, codeId) ==
  LET hits == SelectSeq(cs, LAMBDA c : c.id = codeId)
  IN  IF hits = <<>> THEN Null ELSE Some(hits[1])

\* Variant: the status of the code is not looked at again.
ShowsNotificationAnyStatus(cs, key, t, supported) ==
  FindCode(cs, key.codeId) # Null /\ supported

\* Whether fireNotification reaches notification.show().
ShowsNotification(cs, key, t, supported) ==
  LET currentCode == FindCode(cs, key.codeId)
  IN  /\ currentCode # Null
      /\ LET status == determineCodeStatus(Val(currentCode), t)
         IN  /\ ~(key.type = "expiry" /\ status # "active")
             /\ ~(key.type = "inputDeadline" /\ status # "unused")
      /\ supported

----------------------------------------------------------------------------
(* Inputs *)

MaxThreshold == 2

NotificationTypes == {"expiry", "inputDeadline"}

SchedIds == {1}

AllKeys ==
  {createFiredKey(id, type, m) : id \in SchedIds, type \in NotificationTypes,
                                 m \in 0..MaxThreshold}

\* Single codes for the status engine: every combination of the three fields.
StatusCodes ==
  {PromoCode(1, 1, d, s, e) :
     d \in 0..MaxTime,
     s \in {Null} \cup {Some(x) : x \in 0..MaxTime},
     e \in {Null} \cup {Some(x) : x \in 0..MaxTime}}

\* Activations of a stored code: never started, or started with expiresAt later.
Activations ==
  {[startedAt |-> Null, expiresAt |-> Null]} \cup
  UNION {{[startedAt |-> Some(x), expiresAt |-> Some(y)] : y \in (x + 1)..MaxTime} :
         x \in 0..MaxTime}

\* Code lists for the coverage calculator: up to three codes, ids 1, 2, 3.
CoverageLists ==
  UNION {{[i \in 1..n |-> PromoCode(i, 1, 0, f[i].startedAt, f[i].expiresAt)] :
            f \in [1..n -> Activations]} : n \in 0..Cardinality(CodeIds)}

\* Codes for the selector: unused or expired by one of two deadlines, or started.
CandidateCodes ==
  {PromoCode(id, o, d, Null, Null) : id \in CodeIds, o \in 1..MaxOrder, d \in {1, MaxTime}}
  \cup
  {PromoCode(id, o, 1, Some(0), Some(e)) : id \in CodeIds, o \in 1..MaxOrder, e \in {1, MaxTime}}

\* Code lists for the selector: any order of any codes with distinct ids.
CandidateLists ==
  UNION {{cs \in [1..n -> CandidateCodes] :
            \A i \in 1..n : \A j \in 1..n : i # j => cs[i].id # cs[j].id} :
         n \in 0..Cardinality(CodeIds)}

\* Codes the scheduler is handed: unused with a deadline, or started with an expiry.
SchedCodes(id) ==
  {PromoCode(id, 1, d, Null, Null) : d \in {MsPerMinute + 1}}
  \cup
  {PromoCode(id, 1, 0, Some(0), Some(e)) : e \in {MsPerMinute + 1, MaxNow + MsPerMinute}}

\* Code lists the scheduler is handed: ids are unique, as the store assigns them.
SchedCodeLists ==
  {<<>>} \cup {<<c>> : c \in SchedCodes(1)}

SchedSettings ==
  {NotificationSettings(x, y) :
     x \in {<<1>>, <<MaxThreshold, 1, 1>>}, y \in {<<>>, <<1>>}}

----------------------------------------------------------------------------
(* Persistence layer: the store file and the functions that read and write it. *)
(* Of a stored code the model keeps id, order, inputDeadline,                 *)
(* validityDurationMinutes, startedAt and expiresAt; the code string and the  *)
(* createdAt / updatedAt stamps are left out.  Date strings are the instants  *)
(* they denote.                                                               *)

StoreIds == {1, 2}

StoredCode(id, order, inputDeadline, validityDurationMinutes, startedAt, expiresAt) ==
  [id |-> id, order |-> order, inputDeadline |-> inputDeadline,
   validityDurationMinutes |-> validityDurationMinutes,
   startedAt |-> startedAt, expiresAt |-> expiresAt]

StoreData(version, cs, stg) ==
  [version |-> version, codes |-> cs, notificationSettings |-> stg]

\* [1440, 180, 60, 30] and [] in the source, on the model's scale of thresholds.
DEFAULT_NOTIFICATION_SETTINGS == NotificationSettings(<<MaxThreshold, 1>>, <<>>)

INITIAL_STORE_DATA == StoreData(1, <<>>, DEFAULT_NOTIFICATION_SETTINGS)

getAllCodes(s) == s.codes

getCodeById(s, id) == FindCode(getAllCodes(s), id)

getNotificationSettings(s) == s.notificationSettings

\* crypto.randomUUID(): an id no code in cs has.
generateUUID(cs) == CHOOSE id \in StoreIds : \A i \in 1..Len(cs) : cs[i].id # id

\* The new code of createCode / createCodes for one input.
NewCode(id, input) ==
  StoredCode(id, input.order, input.inputDeadline, input.validityDurationMinutes, Null, Null)

\* [store, value]: the store afterwards and what the function returns.
createCode(s, input) ==
  LET newCode == NewCode(generateUUID(s.codes), input)
  IN  [store |-> [s EXCEPT !.codes = Append(s.codes, newCode)], value |-> newCode]

\* inputs.map(...), each code with an id of its own.
RECURSIVE NewCodes(_, _)
NewCodes(cs, inputs) ==
  IF inputs = <<>> THEN <<>>
  ELSE LET newCode == NewCode(generateUUID(cs), Head(inputs))
       IN  <<newCode>> \o NewCodes(Append(cs, newCode), Tail(inputs))

createCodes(s, inputs) ==
  LET newCodes == NewCodes(s.codes, inputs)
  IN  [store |-> [s EXCEPT !.codes = s.codes \o newCodes], value |-> newCodes]

\* codes.findIndex((code) => code.id === id): 0 for -1.
FindIndex(cs, id) ==
  IF \E i \in 1..Len(cs) : cs[i].id = id
    THEN CHOOSE i \in 1..Len(cs) : cs[i].id = id /\ \A j \in 1..(i - 1) : cs[j].id # id
    ELSE 0

\* { ...existingCode, ...input }: a field of input that is present (not Null)
\* replaces the field of the code; a present field holds Some(value).
Spread(existingCode, input) ==
  [f \in DOMAIN existingCode |->
     IF f \in DOMAIN input /\ input[f] # Null THEN Val(input[f]) ELSE existingCode[f]]

updateCode(s, id, input) ==
  LET index == FindIndex(s.codes, id)
  IN  IF index = 0 THEN [store |-> s, value |-> Null]
      ELSE LET updatedCode == Spread(s.codes[index], input)
           IN  [store |-> [s EXCEPT !.codes[index] = updatedCode],
                value |-> Some(updatedCode)]

deleteCode(s, id) ==
  LET index == FindIndex(s.codes, id)
  IN  IF index = 0 THEN [store |-> s, value |-> FALSE]
      ELSE [store |-> [s EXCEPT !.codes = SubSeq(s.codes, 1, index - 1) \o
                                           SubSeq(s.codes, index + 1, Len(s.codes))],
            value |-> TRUE]

\* An update input with nothing present.
NoFields ==
  [order |-> Null, inputDeadline |-> Null, validityDurationMinutes |-> Null,
   startedAt |-> Null, expiresAt |-> Null]

\* startedAt is Null when the caller leaves it out: the current instant t is taken.
startCode(s, id, startedAt, t) ==
  LET code == getCodeById(s, id)
  IN  IF code = Null THEN [store |-> s, value |-> Null]
      ELSE LET startTime == IF startedAt # Null THEN Val(startedAt) ELSE t
               expiresAt == startTime + Val(code).validityDurationMinutes * MsPerMinute
           IN  updateCode(s, id, [NoFields EXCEPT !.startedAt = Some(Some(startTime)),
                                                  !.expiresAt = Some(Some(expiresAt))])

cancelCode(s, id) ==
  updateCode(s, id, [NoFields EXCEPT !.startedAt = Some(Null), !.expiresAt = Some(Null)])

editStartedAt(s, id, newStartedAt) ==
  LET code == getCodeById(s, id)
  IN  IF code = Null THEN [store |-> s, value |-> Null]
      ELSE LET expiresAt == newStartedAt + Val(code).validityDurationMinutes * MsPerMinute
           IN  updateCode(s, id, [NoFields EXCEPT !.startedAt = Some(Some(newStartedAt)),
                                                  !.expiresAt = Some(Some(expiresAt))])

\* The loop over orders, from pair i on: the first code with the id gets the order.
RECURSIVE UpdateOrdersFrom(_, _, _)
UpdateOrdersFrom(cs, orders, i) ==
  IF i > Len(orders) THEN cs
  ELSE LET index == FindIndex(cs, orders[i].id)
       IN  UpdateOrdersFrom(IF index = 0 THEN cs
                            ELSE [cs EXCEPT ![index].order = orders[i].order],
                            orders, i + 1)

updateOrders(s, orders) ==
  [store |-> [s EXCEPT !.codes = UpdateOrdersFrom(s.codes, orders, 1)], value |-> Null]

updateNotificationSettings(s, stg) ==
  [store |-> [s EXCEPT !.notificationSettings = stg], value |-> Null]

\* StoreDataSchema.safeParse on a parsed value: the three fields with their
\* types and ranges (dates and the code string are taken to be well-formed).
PromoCodeSchemaOk(c) ==
  /\ {"id", "order", "inputDeadline", "validityDurationMinutes", "startedAt", "expiresAt"}
        \subseteq DOMAIN c
  /\ c.order > 0
  /\ c.validityDurationMinutes > 0

NotificationSettingsSchemaOk(stg) ==
  /\ {"expiryThresholdsMinutes", "inputDeadlineThresholdsMinutes"} \subseteq DOMAIN stg
  /\ \A i \in 1..Len(stg.expiryThresholdsMinutes) : stg.expiryThresholdsMinutes[i] >= 0
  /\ \A i \in 1..Len(stg.inputDeadlineThresholdsMinutes) :
        stg.inputDeadlineThresholdsMinutes[i] >= 0

StoreDataSchemaOk(d) ==
  /\ {"version", "codes", "notificationSettings"} \subseteq DOMAIN d
  /\ d.version > 0
  /\ \A i \in 1..Len(d.codes) : PromoCodeSchemaOk(d.codes[i])
  /\ NotificationSettingsSchemaOk(d.notificationSettings)

\* The data zod hands back: the fields of the schema, anything else stripped.
ParsedCode(c) ==
  StoredCode(c.id, c.order, c.inputDeadline, c.validityDurationMinutes,
             c.startedAt, c.expiresAt)

ParsedStoreData(d) ==
  StoreData(d.version, [i \in 1..Len(d.codes) |-> ParsedCode(d.codes[i])],
            NotificationSettings(d.notificationSettings.expiryThresholdsMinutes,
                                 d.notificationSettings.inputDeadlineThresholdsMinutes))

\* Variant: the version is written before the data is validated.
importDataWritesVersionFirst(s, jsonString) ==
  IF ~jsonString.isJson
    THEN [store |-> s, value |-> [success |-> FALSE, error |-> Some("JSON parse error")]]
  ELSE IF ~StoreDataSchemaOk(jsonString.value)
    THEN [store |-> [s EXCEPT !.version = IF "version" \in DOMAIN jsonString.value
                                            THEN jsonString.value.version ELSE @],
          value |-> [success |-> FALSE, error |-> Some("validation error")]]
  ELSE [store |-> ParsedStoreData(jsonString.value),
        value |-> [success |-> TRUE, error |-> Null]]

\* jsonString is a text that JSON.parse rejects (isJson false) or the text of
\* the value it returns.
importData(s, jsonString) ==
  IF ~jsonString.isJson
    THEN [store |-> s, value |-> [success |-> FALSE, error |-> Some("JSON parse error")]]
  ELSE IF ~StoreDataSchemaOk(jsonString.value)
    THEN [store |-> s, value |-> [success |-> FALSE, error |-> Some("validation error")]]
  ELSE [store |-> ParsedStoreData(jsonString.value),
        value |-> [success |-> TRUE, error |-> Null]]

\* Texts handed to importData: not JSON, an export of a store with one started
\* code (with its exportedAt stamp), and values the schema rejects.
ExportedStore ==
  [version |-> 1,
   codes |-> <<StoredCode(1, 1, 1, 1, Some(1), Some(1 + MsPerMinute))>>,
   notificationSettings |-> NotificationSettings(<<1>>, <<1>>),
   exportedAt |-> 0]

ImportTexts ==
  {[isJson |-> FALSE, value |-> [text |-> "not json"]],
   [isJson |-> TRUE, value |-> ExportedStore],
   [isJson |-> TRUE, value |-> [ExportedStore EXCEPT !.version = 0]],
   [isJson |-> TRUE, value |-> [ExportedStore EXCEPT !.codes[1].validityDurationMinutes = 0]],
   [isJson |-> TRUE, value |-> [ExportedStore EXCEPT
                                  !.notificationSettings.expiryThresholdsMinutes = <<-1>>]],
   [isJson |-> TRUE, value |-> [version |-> 1, codes |-> <<>>]]}

\* What the callers of the store hand it.
CreateInputs ==
  {[order |-> 1, inputDeadline |-> d, validityDurationMinutes |-> 1] : d \in {1}}

CreateInputLists == {<<x, y>> : x \in CreateInputs, y \in CreateInputs}

\* Partial updates: one field each.
UpdateInputs ==
  {[NoFields EXCEPT !.order = Some(MaxOrder)],
   [NoFields EXCEPT !.validityDurationMinutes = Some(2)],
   [NoFields EXCEPT !.startedAt = Some(Some(0))]}

OrderLists ==
  {<<[id |-> 1, order |-> MaxOrder]>>,
   <<[id |-> 2, order |-> 1], [id |-> 1, order |-> 1]>>}

----------------------------------------------------------------------------
(* The state after construction *)

\* again: the same operation ran just before, with nothing in between.
Op(name) == [op |-> name, key |-> Null, shown |-> FALSE, again |-> FALSE]

SchedInit ==
  /\ settings = Null
  /\ scheduledNotifications = EmptyMap
  /\ firedNotifications = {}
  /\ checkIntervalId = Null
  /\ timers = EmptyMap
  /\ intervals = EmptyMap
  /\ shown = [k \in AllKeys |-> 0]
  /\ lastOp = Op("init")
  /\ eligibleSeen = {}

----------------------------------------------------------------------------
(* The pure functions, applied to bounded inputs *)

InitStatus ==
  /\ codes \in {<<c>> : c \in StatusCodes}
  /\ now \in 0..(MaxTime + 1)
  /\ result = NoResult
  /\ SchedInit
  /\ store = INITIAL_STORE_DATA

DetermineStatus ==
  /\ result' = [fn |-> "determineCodeStatus", status |-> determineCodeStatus(codes[1], now)]
  /\ UNCHANGED <<codes, now, schedVars, store>>

SpecStatus == InitStatus /\ [][DetermineStatus]_vars

InitCoverage ==
  /\ codes \in CoverageLists
  /\ now \in 0..MaxTime
  /\ result = NoResult
  /\ SchedInit
  /\ store = INITIAL_STORE_DATA

CalculateCoverage ==
  /\ result' = [fn |-> "calculateCoverage", value |-> calculateCoverage(codes, now)]
  /\ UNCHANGED <<codes, now, schedVars, store>>

SpecCoverage == InitCoverage /\ [][CalculateCoverage]_vars

InitCandidate ==
  /\ codes \in CandidateLists
  /\ now \in 0..(MaxTime + 1)
  /\ result = NoResult
  /\ SchedInit
  /\ store = INITIAL_STORE_DATA

GetNextCandidate ==
  /\ result' = [fn |-> "getNextCandidate", value |-> getNextCandidate(codes, now)]
  /\ UNCHANGED <<codes, now, schedVars, store>>

SpecCandidate == InitCandidate /\ [][GetNextCandidate]_vars

----------------------------------------------------------------------------
(* The scheduler and the event loop *)

\* The statuses as the data model states them.
ActiveAt(c, t) == c.startedAt # Null /\ c.expiresAt # Null /\ t <= Val(c.expiresAt)

NeverStartedUnusedAt(c, t) ==
  (c.startedAt = Null \/ c.expiresAt = Null) /\ t <= c.inputDeadline

\* The instant key k is due, given code c.
FireInstant(c, k) ==
  IF k.type = "expiry" THEN Val(c.expiresAt) - k.thresholdMinutes * MsPerMinute
  ELSE c.inputDeadline - k.thresholdMinutes * MsPerMinute

\* A key is eligible: the scheduler runs, the key's code has the status the
\* notification is about, its threshold is configured, its fire instant is
\* ahead, and it has not fired.
Eligible(k) ==
  /\ checkIntervalId # Null
  /\ settings # Null
  /\ k \notin firedNotifications
  /\ \E i \in 1..Len(codes) :
        /\ codes[i].id = k.codeId
        /\ \/ /\ k.type = "expiry"
              /\ ActiveAt(codes[i], now)
              /\ k.thresholdMinutes \in SeqToSet(Val(settings).expiryThresholdsMinutes)
           \/ /\ k.type = "inputDeadline"
              /\ NeverStartedUnusedAt(codes[i], now)
              /\ k.thresholdMinutes \in SeqToSet(Val(settings).inputDeadlineThresholdsMinutes)
        /\ FireInstant(codes[i], k) > now

\* The history of eligible keys: begun anew when the code list or the settings
\* are replaced or the scheduler is started or stopped, extended otherwise.
TrackEligible(anew) ==
  eligibleSeen' = (IF anew THEN {} ELSE eligibleSeen) \cup {k \in AllKeys : Eligible(k)'}

Init ==
  /\ codes = <<>>
  /\ now = 0
  /\ result = NoResult
  /\ SchedInit
  /\ store = INITIAL_STORE_DATA

Maps == [sched |-> scheduledNotifications, timers |-> timers]

\* Variant: a start begins with an empty fired-set.
StartClearsFired(cs, stg) ==
  LET st == scheduleAllNotifications(clearAllScheduled(Maps), cs, Some(stg), {}, now)
      pc == startPeriodicCheck(checkIntervalId, intervals, now)
  IN  /\ codes' = cs
      /\ settings' = Some(stg)
      /\ scheduledNotifications' = st.sched
      /\ timers' = st.timers
      /\ checkIntervalId' = pc.id
      /\ intervals' = pc.ivs
      /\ firedNotifications' = {}
      /\ lastOp' = [Op("start") EXCEPT !.again = (lastOp.op = "start")]
      /\ UNCHANGED <<now, result, shown>>
      /\ TrackEligible(TRUE)
      /\ UNCHANGED store

Start(cs, stg) ==
  LET st == scheduleAllNotifications(clearAllScheduled(Maps), cs, Some(stg),
                                     firedNotifications, now)
      pc == startPeriodicCheck(checkIntervalId, intervals, now)
  IN  /\ codes' = cs
      /\ settings' = Some(stg)
      /\ scheduledNotifications' = st.sched
      /\ timers' = st.timers
      /\ checkIntervalId' = pc.id
      /\ intervals' = pc.ivs
      /\ lastOp' = [Op("start") EXCEPT !.again = (lastOp.op = "start")]
      /\ UNCHANGED <<now, result, firedNotifications, shown>>
      /\ TrackEligible(TRUE)
      /\ UNCHANGED store

Stop ==
  LET st == clearAllScheduled(Maps)
      pc == stopPeriodicCheck(checkIntervalId, intervals)
  IN  /\ scheduledNotifications' = st.sched
      /\ timers' = st.timers
      /\ checkIntervalId' = pc.id
      /\ intervals' = pc.ivs
      /\ lastOp' = [Op("stop") EXCEPT !.again = (lastOp.op = "stop")]
      /\ UNCHANGED <<codes, now, result, settings, firedNotifications, shown>>
      /\ TrackEligible(TRUE)
      /\ UNCHANGED store

UpdateCodes(cs) ==
  LET st == reschedule(Maps, cs, settings, firedNotifications, now)
  IN  /\ codes' = cs
      /\ scheduledNotifications' = st.sched
      /\ timers' = st.timers
      /\ lastOp' = Op("updateCodes")
      /\ UNCHANGED <<now, result, settings, firedNotifications, checkIntervalId,
                     intervals, shown>>
      /\ TrackEligible(TRUE)
      /\ UNCHANGED store

UpdateSettings(stg) ==
  LET st == reschedule(Maps, codes, Some(stg), firedNotifications, now)
  IN  /\ settings' = Some(stg)
      /\ scheduledNotifications' = st.sched
      /\ timers' = st.timers
      /\ lastOp' = Op("updateSettings")
      /\ UNCHANGED <<codes, now, result, firedNotifications, checkIntervalId,
                     intervals, shown>>
      /\ TrackEligible(TRUE)
      /\ UNCHANGED store

Reschedule ==
  LET st == reschedule(Maps, codes, settings, firedNotifications, now)
  IN  /\ scheduledNotifications' = st.sched
      /\ timers' = st.timers
      /\ lastOp' = [Op("reschedule") EXCEPT !.again = (lastOp.op = "reschedule")]
      /\ UNCHANGED <<codes, now, result, settings, firedNotifications, checkIntervalId,
                     intervals, shown>>
      /\ TrackEligible(FALSE)
      /\ UNCHANGED store

ResetFiredNotifications ==
  /\ firedNotifications' = {}
  /\ lastOp' = Op("resetFiredNotifications")
  /\ UNCHANGED <<codes, now, result, settings, scheduledNotifications, checkIntervalId,
                 timers, intervals, shown>>
  /\ TrackEligible(FALSE)
  /\ UNCHANGED store

\* Variant: the key is recorded and its entry dropped only when the
\* notification is shown.
FireNotificationRecordsIfShown(h, supported) ==
  /\ h \in DOMAIN timers
  /\ timers[h].due <= now
  /\ LET key == timers[h].key
         head == fireNotification(scheduledNotifications, firedNotifications, key)
         shows == ShowsNotification(codes, key, now, supported)
     IN  /\ timers' = MapRemove(timers, {h})
         /\ firedNotifications' = IF shows THEN head.fired ELSE firedNotifications
         /\ scheduledNotifications' = IF shows THEN head.sched ELSE scheduledNotifications
         /\ shown' = IF shows /\ shown[key] < MaxShown
                       THEN [shown EXCEPT ![key] = @ + 1] ELSE shown
         /\ lastOp' = [op |-> "fire", key |-> Some(key), shown |-> shows, again |-> FALSE]
  /\ UNCHANGED <<codes, now, result, settings, checkIntervalId, intervals>>
  /\ TrackEligible(FALSE)
  /\ UNCHANGED store

\* Variant: without support the callback returns before it records anything.
FireNotificationUnsupportedReturnsEarly(h, supported) ==
  /\ h \in DOMAIN timers
  /\ timers[h].due <= now
  /\ LET key == timers[h].key
         head == fireNotification(scheduledNotifications, firedNotifications, key)
         shows == ShowsNotification(codes, key, now, supported)
     IN  /\ timers' = MapRemove(timers, {h})
         /\ firedNotifications' = IF supported THEN head.fired ELSE firedNotifications
         /\ scheduledNotifications' = IF supported THEN head.sched ELSE scheduledNotifications
         /\ shown' = IF shows /\ shown[key] < MaxShown
                       THEN [shown EXCEPT ![key] = @ + 1] ELSE shown
         /\ lastOp' = [op |-> "fire", key |-> Some(key), shown |-> shows, again |-> FALSE]
  /\ UNCHANGED <<codes, now, result, settings, checkIntervalId, intervals>>
  /\ TrackEligible(FALSE)
  /\ UNCHANGED store

\* The callback of the one-shot timer h runs: fireNotification for its key.
\* supported is what Notification.isSupported() answers.
FireNotification(h, supported) ==
  /\ h \in DOMAIN timers
  /\ timers[h].due <= now
  /\ LET key == timers[h].key
         head == fireNotification(scheduledNotifications, firedNotifications, key)
         shows == ShowsNotification(codes, key, now, supported)
     IN  /\ timers' = MapRemove(timers, {h})
         /\ firedNotifications' = head.fired
         /\ scheduledNotifications' = head.sched
         /\ shown' = IF shows /\ shown[key] < MaxShown
                       THEN [shown EXCEPT ![key] = @ + 1] ELSE shown
         /\ lastOp' = [op |-> "fire", key |-> Some(key), shown |-> shows, again |-> FALSE]
  /\ UNCHANGED <<codes, now, result, settings, checkIntervalId, intervals>>
  /\ TrackEligible(FALSE)
  /\ UNCHANGED store

\* The callback of the interval h runs: reschedule(); the interval repeats.
PeriodicCheck(h) ==
  /\ h \in DOMAIN intervals
  /\ intervals[h] <= now
  /\ LET st == reschedule(Maps, codes, settings, firedNotifications, now)
     IN  /\ scheduledNotifications' = st.sched
         /\ timers' = st.timers
  /\ intervals' = [intervals EXCEPT ![h] = now + CHECK_INTERVAL_MS]
  /\ lastOp' = Op("periodicCheck")
  /\ UNCHANGED <<codes, now, result, settings, firedNotifications, checkIntervalId,
                 shown>>
  /\ TrackEligible(FALSE)
  /\ UNCHANGED store

\* Time passes; a callback that is due may run late.
Tick ==
  /\ now < MaxNow
  /\ now' = now + 1
  /\ lastOp' = Op("tick")
  /\ UNCHANGED <<codes, result, settings, scheduledNotifications, firedNotifications,
                 checkIntervalId, timers, intervals, shown>>
  /\ TrackEligible(FALSE)
  /\ UNCHANGED store

Handles == 1..(Cardinality(AllKeys) + 1)

Next ==
  \/ \E cs \in SchedCodeLists : \E stg \in SchedSettings : Start(cs, stg)
  \/ Stop
  \/ \E cs \in SchedCodeLists : UpdateCodes(cs)
  \/ \E stg \in SchedSettings : UpdateSettings(stg)
  \/ Reschedule
  \/ ResetFiredNotifications
  \/ \E h \in Handles : \E supported \in BOOLEAN : FireNotification(h, supported)
  \/ \E h \in Handles : PeriodicCheck(h)
  \/ Tick

Spec == Init /\ [][Next]_vars

\* The same scheduler in a session in which resetFiredNotifications is never called.
NextNoReset ==
  \/ \E cs \in SchedCodeLists : \E stg \in SchedSettings : Start(cs, stg)
  \/ Stop
  \/ \E cs \in SchedCodeLists : UpdateCodes(cs)
  \/ \E stg \in SchedSettings : UpdateSettings(stg)
  \/ Reschedule
  \/ \E h \in Handles : \E supported \in BOOLEAN : FireNotification(h, supported)
  \/ \E h \in Handles : PeriodicCheck(h)
  \/ Tick

SpecNoReset == Init /\ [][NextNoReset]_vars

\* The event loop runs every callback as soon as it is due: time passes only
\* when no callback is due.
PromptTick ==
  /\ \A h \in DOMAIN timers : timers[h].due > now
  /\ \A h \in DOMAIN intervals : intervals[h] > now
  /\ Tick

\* One session: the scheduler is started once, and then the code list and the
\* settings stay as they are; notifications are supported.
LiveNext ==
  \/ \E cs \in SchedCodeLists : \E stg \in SchedSettings : settings = Null /\ Start(cs, stg)
  \/ \E h \in Handles : FireNotification(h, TRUE)
  \/ \E h \in Handles : PeriodicCheck(h)
  \/ PromptTick

LiveSpec ==
  /\ Init
  /\ [][LiveNext]_vars
  /\ WF_vars(\E h \in Handles : FireNotification(h, TRUE))
  /\ WF_vars(\E h \in Handles : PeriodicCheck(h))
  /\ WF_vars(PromptTick)

----------------------------------------------------------------------------
(* The store functions, called one after another as time passes *)

\* Everything a store function leaves alone.
storeFrame ==
  UNCHANGED <<codes, now, settings, scheduledNotifications, firedNotifications,
              checkIntervalId, timers, intervals, shown, eligibleSeen>>

StoreCall(name, r) ==
  /\ store' = r.store
  /\ result' = [fn |-> name, value |-> r.value]
  /\ lastOp' = Op(name)
  /\ storeFrame

CreateCode(input) ==
  /\ Len(store.codes) < Cardinality(StoreIds)
  /\ StoreCall("createCode", createCode(store, input))

CreateCodes(inputs) ==
  /\ Len(store.codes) + Len(inputs) <= Cardinality(StoreIds)
  /\ StoreCall("createCodes", createCodes(store, inputs))

UpdateCode(id, input) == StoreCall("updateCode", updateCode(store, id, input))

DeleteCode(id) == StoreCall("deleteCode", deleteCode(store, id))

\* The status of the code before the call is kept with what the call returns.
StartCode(id, startedAt) ==
  LET code == getCodeById(store, id)
      r == startCode(store, id, startedAt, now)
  IN  /\ store' = r.store
      /\ result' = [fn |-> "startCode", value |-> r.value,
                     statusBefore |-> IF code = Null THEN Null
                                      ELSE Some(determineCodeStatus(Val(code), now))]
      /\ lastOp' = Op("startCode")
      /\ storeFrame

CancelCode(id) == StoreCall("cancelCode", cancelCode(store, id))

EditStartedAt(id, newStartedAt) ==
  StoreCall("editStartedAt", editStartedAt(store, id, newStartedAt))

UpdateOrders(orders) == StoreCall("updateOrders", updateOrders(store, orders))

StoreNext ==
  \/ \E input \in CreateInputs : CreateCode(input)
  \/ \E inputs \in CreateInputLists : CreateCodes(inputs)
  \/ \E id \in StoreIds : \E input \in UpdateInputs : UpdateCode(id, input)
  \/ \E id \in StoreIds : DeleteCode(id)
  \/ \E id \in StoreIds : \E startedAt \in {Null, Some(0)} : StartCode(id, startedAt)
  \/ \E id \in StoreIds : CancelCode(id)
  \/ \E id \in StoreIds : \E t \in {1} : EditStartedAt(id, t)
  \/ \E orders \in OrderLists : UpdateOrders(orders)
  \/ Tick

SpecStore == Init /\ [][StoreNext]_vars

----------------------------------------------------------------------------
(* The main process: the IPC handlers over the store and the scheduler *)

\* What the store file holds when the application is launched.
PersistedStores ==
  {INITIAL_STORE_DATA,
   StoreData(1, <<StoredCode(1, 1, 1, 1, Some(0), Some(MsPerMinute + 1))>>,
             DEFAULT_NOTIFICATION_SETTINGS)}

InitApp ==
  /\ codes = <<>>
  /\ now = 0
  /\ result = NoResult
  /\ SchedInit
  /\ store \in PersistedStores

\* The handlers answer between whenReady, which starts the scheduler, and
\* will-quit, which stops it.
AppRunning == checkIntervalId # Null

\* app.whenReady(): initNotificationScheduler().
initNotificationScheduler ==
  /\ settings = Null
  /\ checkIntervalId = Null
  /\ Start(getAllCodes(store), getNotificationSettings(store))

\* app.on('will-quit'): stopNotificationScheduler().
WillQuit ==
  /\ AppRunning
  /\ Stop

\* A handler that writes the store (r is what the store function gives) and
\* then calls updateNotificationSchedulerCodes(getAllCodes()).
HandleAndUpdateCodes(name, r) ==
  LET cs == getAllCodes(r.store)
      st == reschedule(Maps, cs, settings, firedNotifications, now)
  IN  /\ AppRunning
      /\ store' = r.store
      /\ codes' = cs
      /\ scheduledNotifications' = st.sched
      /\ timers' = st.timers
      /\ result' = [fn |-> name, value |-> r.value]
      /\ lastOp' = Op(name)
      /\ UNCHANGED <<now, settings, firedNotifications, checkIntervalId, intervals, shown>>
      /\ TrackEligible(TRUE)

\* Variant: the handler writes the store and leaves the scheduler as it is.
registerCreateCodeStoreOnly(input) ==
  /\ AppRunning
  /\ Len(store.codes) < Cardinality(SchedIds)
  /\ StoreCall("ipc:createCode", createCode(store, input))

registerCreateCode(input) ==
  /\ Len(store.codes) < Cardinality(SchedIds)
  /\ HandleAndUpdateCodes("ipc:createCode", createCode(store, input))

registerCreateCodes(inputs) ==
  /\ Len(store.codes) + Len(inputs) <= Cardinality(SchedIds)
  /\ HandleAndUpdateCodes("ipc:createCodes", createCodes(store, inputs))

registerDeleteCode(id) ==
  HandleAndUpdateCodes("ipc:deleteCode", deleteCode(store, id))

\* The order is written to the store; the scheduler is not called.
registerUpdateOrders(orders) ==
  /\ AppRunning
  /\ StoreCall("ipc:updateOrders", updateOrders(store, orders))

registerStartCode(id, startedAt) ==
  HandleAndUpdateCodes("ipc:startCode", startCode(store, id, startedAt, now))

registerCancelCode(id) ==
  HandleAndUpdateCodes("ipc:cancelCode", cancelCode(store, id))

registerEditStartedAt(id, newStartedAt) ==
  HandleAndUpdateCodes("ipc:editStartedAt", editStartedAt(store, id, newStartedAt))

\* updateNotificationSettings in the store, then updateSettings of the scheduler.
registerUpdateNotificationSettings(stg) ==
  LET r == updateNotificationSettings(store, stg)
      st == reschedule(Maps, codes, Some(stg), firedNotifications, now)
  IN  /\ AppRunning
      /\ store' = r.store
      /\ settings' = Some(stg)
      /\ scheduledNotifications' = st.sched
      /\ timers' = st.timers
      /\ result' = [fn |-> "ipc:updateNotificationSettings", value |-> r.value]
      /\ lastOp' = Op("ipc:updateNotificationSettings")
      /\ UNCHANGED <<codes, now, firedNotifications, checkIntervalId, intervals, shown>>
      /\ TrackEligible(TRUE)

\* importData, and when it succeeds updateCodes and then updateSettings of the
\* scheduler, each with its reschedule.
registerImportData(jsonString) ==
  LET r == importData(store, jsonString)
      cs == getAllCodes(r.store)
      stg == getNotificationSettings(r.store)
      st1 == reschedule(Maps, cs, settings, firedNotifications, now)
      st2 == reschedule(st1, cs, Some(stg), firedNotifications, now)
  IN  /\ AppRunning
      /\ store' = r.store
      /\ result' = [fn |-> "ipc:importData", value |-> r.value]
      /\ lastOp' = Op("ipc:importData")
      /\ IF r.value.success
            THEN /\ codes' = cs
                 /\ settings' = Some(stg)
                 /\ scheduledNotifications' = st2.sched
                 /\ timers' = st2.timers
            ELSE UNCHANGED <<codes, settings, scheduledNotifications, timers>>
      /\ UNCHANGED <<now, firedNotifications, checkIntervalId, intervals, shown>>
      /\ TrackEligible(TRUE)

\* Requests the renderer sends, having passed parseRequest.
AppCreateInputLists == {<<x>> : x \in CreateInputs}

AppOrderLists == {<<[id |-> 1, order |-> MaxOrder]>>}

AppSettings == {NotificationSettings(<<1>>, <<>>)}

AppNext ==
  \/ initNotificationScheduler
  \/ WillQuit
  \/ \E input \in CreateInputs : registerCreateCode(input)
  \/ \E inputs \in AppCreateInputLists : registerCreateCodes(inputs)
  \/ \E id \in SchedIds : registerDeleteCode(id)
  \/ \E orders \in AppOrderLists : registerUpdateOrders(orders)
  \/ \E id \in SchedIds : \E startedAt \in {Null, Some(0)} : registerStartCode(id, startedAt)
  \/ \E id \in SchedIds : registerCancelCode(id)
  \/ \E id \in SchedIds : \E t \in {1} : registerEditStartedAt(id, t)
  \/ \E stg \in AppSettings : registerUpdateNotificationSettings(stg)
  \/ \E jsonString \in ImportTexts : registerImportData(jsonString)
  \/ \E h \in Handles : FireNotification(h, TRUE)
  \/ \E h \in Handles : PeriodicCheck(h)
  \/ Tick

SpecApp == InitApp /\ [][AppNext]_vars

----------------------------------------------------------------------------
(* Properties of the pure functions *)

StatusApplied == result.fn = "determineCodeStatus"

\* C1: a code with startedAt = null is 'unused' exactly when now <= inputDeadline
\* and 'expired' exactly when now is past the deadline.
C1_NeverStartedStatus ==
  (StatusApplied /\ codes[1].startedAt = Null) =>
     /\ result.status = "unused" <=> now <= codes[1].inputDeadline
     /\ result.status = "expired" <=> now > codes[1].inputDeadline

C1_Witness ==
  /\ StatusApplied
  /\ codes[1].startedAt = Null
  /\ now = codes[1].inputDeadline + 1
  /\ result.status = "expired"

\* C2: a code with startedAt and expiresAt set is 'active' exactly when
\* now <= expiresAt and 'consumed' otherwise, whatever its inputDeadline.
C2_StartedStatus ==
  (StatusApplied /\ codes[1].startedAt # Null /\ codes[1].expiresAt # Null) =>
     /\ result.status = "active" <=> now <= Val(codes[1].expiresAt)
     /\ result.status = "consumed" <=> now > Val(codes[1].expiresAt)

C2_Witness ==
  /\ StatusApplied
  /\ codes[1].startedAt # Null /\ codes[1].expiresAt # Null
  /\ codes[1].inputDeadline < now
  /\ now <= Val(codes[1].expiresAt)
  /\ result.status = "active"

CoverageApplied == result.fn = "calculateCoverage"

\* The closed intervals of the codes that are active at t, stated from the
\* data model: started, and t not past expiresAt.
ActiveIntervalsAt(cs, t) ==
  {TimeInterval(Val(cs[i].startedAt), Val(cs[i].expiresAt)) :
     i \in {j \in 1..Len(cs) : /\ cs[j].startedAt # Null /\ cs[j].expiresAt # Null
                               /\ t <= Val(cs[j].expiresAt)}}

NowIsCovered(cs, t) == \E iv \in ActiveIntervalsAt(cs, t) : iv.start <= t /\ t <= iv.end

\* The right end of the connected component, containing t, of the union of the
\* intervals: the last instant e with every stretch [x, x+1] of [t, e] inside
\* one of them.
ComponentEnd(cs, t) ==
  LET ivs == ActiveIntervalsAt(cs, t)
      Inside(x) == \E iv \in ivs : iv.start <= x /\ x + 1 <= iv.end
  IN  Max({e \in t..Max({iv.end : iv \in ivs}) : \A x \in t..(e - 1) : Inside(x)})

\* C8: when an active interval contains now, coverageEnd is the right end of
\* the connected component, containing now, of the union of the active intervals.
C8_CoverageEndIsComponentEnd ==
  (CoverageApplied /\ NowIsCovered(codes, now)) =>
     /\ result.value.hasCoverage
     /\ result.value.coverageEndAt = Some(ComponentEnd(codes, now))

\* Three touching intervals, now inside the first: coverage runs to the end of the third.
C8_Witness ==
  /\ CoverageApplied
  /\ Len(codes) = 3
  /\ \A i \in 1..3 : codes[i].startedAt # Null
  /\ now > Val(codes[3].startedAt) /\ now < Val(codes[3].expiresAt)
  /\ Val(codes[1].startedAt) = Val(codes[3].expiresAt)
  /\ Val(codes[2].startedAt) = Val(codes[1].expiresAt)
  /\ result.value.coverageEndAt = codes[2].expiresAt
  /\ ~result.value.hasGap

\* C9: with coverage, hasGap holds exactly when an active interval starts
\* strictly after coverageEnd; gapStartAt is then coverageEndAt, and null otherwise.
C9_GapAtCoverageEnd ==
  (CoverageApplied /\ result.value.hasCoverage) =>
     /\ result.value.hasGap <=>
          \E iv \in ActiveIntervalsAt(codes, now) : iv.start > Val(result.value.coverageEndAt)
     /\ result.value.hasGap => result.value.gapStartAt = result.value.coverageEndAt
     /\ ~result.value.hasGap => result.value.gapStartAt = Null

\* An interval around now, and a second one that starts more than one tick after its end.
C9_Witness ==
  /\ CoverageApplied
  /\ Len(codes) = 2
  /\ \A i \in 1..2 : codes[i].startedAt # Null
  /\ Val(codes[2].startedAt) <= now /\ now < Val(codes[2].expiresAt)
  /\ Val(codes[1].startedAt) > Val(codes[2].expiresAt) + 1
  /\ result.value.hasGap
  /\ result.value.gapStartAt = codes[2].expiresAt

CandidateApplied == result.fn = "getNextCandidate"

\* 'unused' stated from the data model: never activated, deadline not passed.
UnusedAt(cs, t) ==
  {i \in 1..Len(cs) : /\ cs[i].startedAt = Null \/ cs[i].expiresAt = Null
                      /\ t <= cs[i].inputDeadline}

\* C10: no candidate exactly when no code is unused; otherwise the candidate
\* is the unused code that every other unused code follows by order, then id.
C10_CandidateIsFirstUnused ==
  CandidateApplied =>
     LET U == UnusedAt(codes, now)
     IN  /\ (~result.value.hasCandidate /\ result.value.candidate = Null) <=> U = {}
         /\ result.value.hasCandidate <=> U # {}
         /\ U # {} =>
              \E i \in U :
                 /\ result.value.candidate = Some(codes[i])
                 /\ \A j \in U \ {i} :
                       \/ codes[j].order > codes[i].order
                       \/ codes[j].order = codes[i].order /\ codes[j].id > codes[i].id

\* A started code of smaller order first, then two unused codes of equal
\* order, the larger id first: the smaller id is chosen.
C10_Witness ==
  /\ CandidateApplied
  /\ Len(codes) = 3
  /\ codes[1].startedAt # Null /\ codes[1].order < codes[2].order
  /\ UnusedAt(codes, now) = {2, 3}
  /\ codes[2].order = codes[3].order /\ codes[2].id > codes[3].id
  /\ result.value.candidate = Some(codes[3])

----------------------------------------------------------------------------
(* Properties of the scheduler *)

\* The keys a (re)schedule at instant t must leave armed, each with its fire
\* instant, stated from the scheduling rules.
ExpectedSchedule(cs, stg, fired, t) ==
  LET expiry ==
        {[key |-> createFiredKey(cs[i].id, "expiry", m),
          at  |-> Val(cs[i].expiresAt) - m * MsPerMinute] :
           i \in {j \in 1..Len(cs) : ActiveAt(cs[j], t)},
           m \in SeqToSet(stg.expiryThresholdsMinutes)}
      deadline ==
        {[key |-> createFiredKey(cs[i].id, "inputDeadline", m),
          at  |-> cs[i].inputDeadline - m * MsPerMinute] :
           i \in {j \in 1..Len(cs) : NeverStartedUnusedAt(cs[j], t)},
           m \in SeqToSet(stg.inputDeadlineThresholdsMinutes)}
  IN  {e \in expiry \cup deadline :
         e.at > t /\ e.key \notin fired /\ e.at - t <= MAX_TIMEOUT}

JustScheduled == lastOp.op \in {"start", "updateCodes", "updateSettings", "reschedule"}

LiveSchedule ==
  {[key |-> k, at |-> scheduledNotifications[k].scheduledAt] :
     k \in DOMAIN scheduledNotifications}

PendingTimers == {timers[h] : h \in DOMAIN timers}

\* C3: right after start, updateCodes, updateSettings or reschedule with
\* settings installed, the live timers are exactly the eligible keys (active
\* code and expiry threshold, or unused code and deadline threshold, fire
\* instant in the future, not fired, within the longest delay), each with its
\* fire instant.
C3_LiveTimersAreTheEligibleKeys ==
  (JustScheduled /\ settings # Null) =>
     /\ LiveSchedule = ExpectedSchedule(codes, Val(settings), firedNotifications, now)
     /\ {[key |-> x.key, at |-> x.due] : x \in PendingTimers} = LiveSchedule

\* An active code with thresholds of two minutes and one minute of which only
\* the one-minute instant is still ahead: one timer.
C3_Witness ==
  /\ JustScheduled
  /\ settings # Null
  /\ Val(settings).expiryThresholdsMinutes = <<MaxThreshold, 1, 1>>
  /\ Len(codes) = 1 /\ ActiveAt(codes[1], now)
  /\ Val(codes[1].expiresAt) - MaxThreshold * MsPerMinute <= now
  /\ DOMAIN scheduledNotifications = {createFiredKey(codes[1].id, "expiry", 1)}

\* C4: without resetFiredNotifications, the notification of a key is shown at most once.
C4_ShownAtMostOnce == \A k \in AllKeys : shown[k] <= 1

\* A key has been shown, and the code now expires late enough for that key's
\* instant to lie ahead again.
C4_Witness ==
  \E k \in AllKeys :
     /\ shown[k] = 1
     /\ k.type = "expiry"
     /\ lastOp.op = "updateCodes"
     /\ Len(codes) = 1 /\ ActiveAt(codes[1], now)
     /\ Val(codes[1].expiresAt) - k.thresholdMinutes * MsPerMinute > now
     /\ settings # Null
     /\ k.thresholdMinutes \in SeqToSet(Val(settings).expiryThresholdsMinutes)

\* C5: no fired key has a live timer.
C5_FiredKeysAreNotLive ==
  /\ firedNotifications \cap DOMAIN scheduledNotifications = {}
  /\ firedNotifications \cap {x.key : x \in PendingTimers} = {}

\* A fired key whose instant lies ahead again, within reach of a timer, after
\* the code was given a later expiry; a reschedule has just run.
C5_Witness ==
  \E k \in firedNotifications :
     /\ k.type = "expiry"
     /\ JustScheduled
     /\ Len(codes) = 1 /\ ActiveAt(codes[1], now)
     /\ Val(codes[1].expiresAt) - k.thresholdMinutes * MsPerMinute > now
     /\ Val(codes[1].expiresAt) - k.thresholdMinutes * MsPerMinute - now <= MAX_TIMEOUT
     /\ settings # Null
     /\ k.thresholdMinutes \in SeqToSet(Val(settings).expiryThresholdsMinutes)
     /\ k \notin DOMAIN scheduledNotifications

\* C6: a timer callback shows a notification only if its code is in the code
\* list and is, at that instant, active (expiry) or unused (input deadline).
C6_ShownOnlyForMatchingStatus ==
  (lastOp.op = "fire" /\ lastOp.shown) =>
     \E i \in 1..Len(codes) :
        /\ codes[i].id = Val(lastOp.key).codeId
        /\ Val(lastOp.key).type = "expiry" => ActiveAt(codes[i], now)
        /\ Val(lastOp.key).type = "inputDeadline" => NeverStartedUnusedAt(codes[i], now)

\* A callback that ran late, after its code was consumed: nothing was shown.
C6_Witness ==
  /\ lastOp.op = "fire"
  /\ ~lastOp.shown
  /\ Val(lastOp.key).type = "expiry"
  /\ Len(codes) = 1
  /\ codes[1].id = Val(lastOp.key).codeId
  /\ codes[1].expiresAt # Null
  /\ now > Val(codes[1].expiresAt)

\* C7: while the scheduler runs and codes and settings stay as they are, the
\* notification of every key that was eligible is shown: once the key's fire
\* instant is reached, the key is still armed or its notification has been shown.
C7_EligibleKeyIsShown ==
  \A k \in eligibleSeen :
     \A i \in 1..Len(codes) :
        (codes[i].id = k.codeId /\ FireInstant(codes[i], k) <= now) =>
           \/ k \in DOMAIN scheduledNotifications
           \/ shown[k] >= 1

\* C11: a second reschedule() right after a first, with nothing in between,
\* leaves the live timer keys, their fire instants and the pending timers of
\* the event loop as the first call left them.
C11_RescheduleTwiceIsRescheduleOnce ==
  [][(lastOp.op = "reschedule" /\ lastOp'.op = "reschedule") =>
       /\ LiveSchedule' = LiveSchedule
       /\ timers' = timers]_vars

\* reschedule() ran twice in a row on a scheduler with a started code and the
\* three thresholds configured; one key is armed, one is beyond the longest
\* delay or already past.
C11_Witness ==
  /\ lastOp.op = "reschedule"
  /\ lastOp.again
  /\ settings # Null
  /\ Len(Val(settings).expiryThresholdsMinutes) = 3
  /\ Len(codes) = 1 /\ ActiveAt(codes[1], now)
  /\ Cardinality(DOMAIN scheduledNotifications) = 1
  /\ Cardinality(DOMAIN timers) = 1

\* The codes key k can be about: the id matches, and an expiry key needs an expiresAt.
KeyCodes(k) ==
  {i \in 1..Len(codes) :
     codes[i].id = k.codeId /\ (k.type = "expiry" => codes[i].expiresAt # Null)}

JustScanned == lastOp.op \in {"start", "periodicCheck"}

\* C12: in a session with the periodic re-scan running, a (re)schedule leaves
\* a key whose delay exceeds MAX_TIMEOUT unarmed and unfired, and arms an
\* eligible key whose delay is within MAX_TIMEOUT; an eligible key is armed
\* from one re-scan period inside the horizon on, so before its fire instant.
C12_FarKeyIsArmedInTime ==
  \A k \in AllKeys :
     \A i \in KeyCodes(k) :
        LET delay == FireInstant(codes[i], k) - now
        IN  /\ (JustScanned /\ delay > MAX_TIMEOUT) =>
                 k \notin DOMAIN scheduledNotifications /\ k \notin firedNotifications
            /\ (JustScanned /\ Eligible(k) /\ delay <= MAX_TIMEOUT) =>
                 k \in DOMAIN scheduledNotifications
            /\ (Eligible(k) /\ delay <= MAX_TIMEOUT - CHECK_INTERVAL_MS) =>
                 /\ k \in DOMAIN scheduledNotifications
                 /\ scheduledNotifications[k].scheduledAt = FireInstant(codes[i], k)

\* The re-scan has just armed a key that was beyond the longest delay one
\* re-scan period earlier.
C12_Witness ==
  /\ lastOp.op = "periodicCheck"
  /\ \E k \in DOMAIN scheduledNotifications :
        \E i \in KeyCodes(k) :
           /\ Eligible(k)
           /\ FireInstant(codes[i], k) - now <= MAX_TIMEOUT
           /\ FireInstant(codes[i], k) - (now - CHECK_INTERVAL_MS) > MAX_TIMEOUT

C14_NoCoverageWithoutContainingInterval ==
  (CoverageApplied /\ ~NowIsCovered(codes, now)) =>
     /\ result.value.hasCoverage = FALSE
     /\ result.value.coverageEndAt = Null
     /\ result.value.remainingMinutes = Null
     /\ result.value.hasGap = FALSE
     /\ result.value.gapStartAt = Null

\* Two codes whose intervals begin after now, one after the other with a gap,
\* and a code that was never started.
C14_Witness ==
  /\ CoverageApplied
  /\ Len(codes) = 3
  /\ codes[1].startedAt # Null /\ codes[2].startedAt # Null /\ codes[3].startedAt = Null
  /\ now < Val(codes[1].startedAt)
  /\ Val(codes[1].expiresAt) < Val(codes[2].startedAt)
  /\ ~result.value.hasCoverage
  /\ ~result.value.hasGap

\* The list without its i-th code.
RemoveAt(cs, i) == SubSeq(cs, 1, i - 1) \o SubSeq(cs, i + 1, Len(cs))

\* C15: for a fixed now, a list with one more code has coverage whenever the
\* list without that code has, and its coverageEnd is not earlier.
C15_CoverageIsMonotonic ==
  CoverageApplied =>
     \A i \in 1..Len(codes) :
        LET fewer == calculateCoverage(RemoveAt(codes, i), now)
        IN  fewer.hasCoverage =>
               /\ result.value.hasCoverage
               /\ Val(result.value.coverageEndAt) >= Val(fewer.coverageEndAt)

\* One code more moves coverageEnd later; another code of the list lies
\* inside the coverage and moves nothing.
C15_Witness ==
  /\ CoverageApplied
  /\ Len(codes) = 3
  /\ \E i \in 1..3 :
        LET fewer == calculateCoverage(RemoveAt(codes, i), now)
        IN  /\ fewer.hasCoverage
            /\ Val(fewer.coverageEndAt) < Val(result.value.coverageEndAt)
  /\ \E i \in 1..3 :
        /\ codes[i].startedAt # Null
        /\ now <= Val(codes[i].expiresAt)
        /\ calculateCoverage(RemoveAt(codes, i), now) = result.value

\* C16: with coverage, remainingMinutes is the number of whole minutes from
\* now to coverageEnd and is not negative; at now = coverageEnd there is still
\* coverage, with 0 minutes remaining.
C16_RemainingMinutesIsFloor ==
  CoverageApplied =>
     /\ result.value.hasCoverage =>
          LET d == Val(result.value.coverageEndAt) - now
              r == Val(result.value.remainingMinutes)
          IN  /\ r >= 0
              /\ r * MsPerMinute <= d
              /\ d < (r + 1) * MsPerMinute
     /\ (NowIsCovered(codes, now) /\ ComponentEnd(codes, now) = now) =>
          /\ result.value.hasCoverage
          /\ result.value.remainingMinutes = Some(0)

\* now is the instant the only active code expires.
C16_Witness ==
  /\ CoverageApplied
  /\ Len(codes) = 1
  /\ codes[1].expiresAt = Some(now)
  /\ result.value.hasCoverage
  /\ result.value.coverageEndAt = Some(now)
  /\ result.value.remainingMinutes = Some(0)

\* The list cs in the order p.
Permuted(cs, p) == [i \in 1..Len(cs) |-> cs[p[i]]]

\* C17: a call of getNextCandidate leaves the list as it is, and what it
\* returns is what it returns for every other order of the same codes (ids
\* unique) at the same now; so a further call on the unchanged list returns
\* the same, and of two unused codes of equal order the smaller id wins
\* whichever comes first.
C17_CandidateIgnoresListOrder ==
  [][result'.fn = "getNextCandidate" =>
       /\ codes' = codes
       /\ \A p \in Permutations(1..Len(codes)) :
             getNextCandidate(Permuted(codes, p), now) = result'.value]_vars

\* Three unused codes of one order, listed by descending id: the last is chosen.
C17_Witness ==
  /\ CandidateApplied
  /\ Len(codes) = 3
  /\ UnusedAt(codes, now) = {1, 2, 3}
  /\ codes[1].order = codes[2].order /\ codes[2].order = codes[3].order
  /\ codes[1].id > codes[2].id /\ codes[2].id > codes[3].id
  /\ result.value.candidate = Some(codes[3])

\* C18: after a timer callback its key is in the fired-set and has no entry
\* in the map of live timers, whether or not the notification was shown.
C18_FiringRecordsTheKey ==
  lastOp.op = "fire" =>
     /\ Val(lastOp.key) \in firedNotifications
     /\ Val(lastOp.key) \notin DOMAIN scheduledNotifications

\* The callback of an input-deadline key ran after the deadline: the code is
\* expired, nothing was shown, the key is recorded.
C18_Witness ==
  /\ lastOp.op = "fire"
  /\ ~lastOp.shown
  /\ Val(lastOp.key).type = "inputDeadline"
  /\ Len(codes) = 1
  /\ codes[1].id = Val(lastOp.key).codeId
  /\ codes[1].startedAt = Null
  /\ now > codes[1].inputDeadline
  /\ Val(lastOp.key) \in firedNotifications

\* C19: start, stop, updateCodes, updateSettings, reschedule and the periodic
\* re-scan leave the fired-set as it is; a key is added to it only by a timer
\* callback (its own key), and keys leave it only by resetFiredNotifications.
C19_FiredSetFrame ==
  [][/\ lastOp'.op \in {"start", "stop", "updateCodes", "updateSettings", "reschedule",
                        "periodicCheck"} =>
          firedNotifications' = firedNotifications
     /\ firedNotifications' \ firedNotifications # {} =>
          /\ lastOp'.op = "fire"
          /\ firedNotifications' = firedNotifications \cup {Val(lastOp'.key)}
     /\ firedNotifications \ firedNotifications' # {} =>
          lastOp'.op = "resetFiredNotifications"]_vars

\* New settings without the threshold of a fired key were installed: the key
\* is still in the fired-set.
C19_Witness ==
  /\ lastOp.op = "updateSettings"
  /\ checkIntervalId # Null
  /\ \E k \in firedNotifications :
        /\ k.type = "expiry"
        /\ k.thresholdMinutes \notin SeqToSet(Val(settings).expiryThresholdsMinutes)

\* C20: what a timer callback leaves of the scheduler is fixed by the state
\* before it and the timer that ran, the same with and without notification
\* support: the key is in the fired-set, its entry and its timer are gone,
\* code list, settings and periodic re-scan are as before; without delivery
\* nothing is shown.
C20_UnsupportedOnlySkipsDelivery ==
  [][lastOp'.op = "fire" =>
       \E h \in DOMAIN timers :
          /\ lastOp'.key = Some(timers[h].key)
          /\ timers' = MapRemove(timers, {h})
          /\ firedNotifications' = firedNotifications \cup {timers[h].key}
          /\ scheduledNotifications' = MapRemove(scheduledNotifications, {timers[h].key})
          /\ UNCHANGED <<codes, settings, checkIntervalId, intervals>>
          /\ ~lastOp'.shown => shown' = shown]_vars

\* The callback of an expiry key ran while its code was active and showed
\* nothing: notifications are not supported.
C20_Witness ==
  /\ lastOp.op = "fire"
  /\ ~lastOp.shown
  /\ Val(lastOp.key).type = "expiry"
  /\ Len(codes) = 1
  /\ codes[1].id = Val(lastOp.key).codeId
  /\ ActiveAt(codes[1], now)
  /\ Val(lastOp.key) \in firedNotifications
  /\ Val(lastOp.key) \notin DOMAIN scheduledNotifications
  /\ checkIntervalId # Null

\* C21: every stored code has startedAt and expiresAt both null or both set,
\* and when set expiresAt is startedAt plus validityDurationMinutes minutes.
C21_StartedAndExpiresAgree ==
  \A i \in 1..Len(store.codes) :
     LET c == store.codes[i]
     IN  /\ c.startedAt = Null <=> c.expiresAt = Null
         /\ c.startedAt # Null =>
               c.expiresAt = Some(Val(c.startedAt) + c.validityDurationMinutes * MsPerMinute)


\* C22: startCode on a never-activated code whose input deadline has passed
\* (status 'expired' when the call is made) does not make the code active.
C22_ExpiredCodeIsNotStarted ==
  (lastOp.op = "startCode" /\ result.statusBefore = Some("expired")) =>
     determineCodeStatus(Val(result.value), now) # "active"


\* C23: a non-empty live-timer map implies that the periodic re-scan is
\* active, that is start() has run and stop() has not run since.
C23_TimersOnlyWhileRunning ==
  DOMAIN scheduledNotifications # {} => checkIntervalId # Null


\* C24: the pending one-shot timers are exactly the handles the live-timer map
\* records, one handle per key and one key per handle, each timer being the
\* timer of the key that records it.
C24_PendingTimersAreTheMap ==
  /\ DOMAIN timers = {scheduledNotifications[k].timerId : k \in DOMAIN scheduledNotifications}
  /\ \A k \in DOMAIN scheduledNotifications :
        timers[scheduledNotifications[k].timerId].key = k
  /\ Cardinality(DOMAIN timers) = Cardinality(DOMAIN scheduledNotifications)

\* The one-minute threshold is configured twice and is armed, while a timer
\* has run already.
C24_Witness ==
  /\ settings # Null
  /\ Val(settings).expiryThresholdsMinutes = <<MaxThreshold, 1, 1>>
  /\ createFiredKey(1, "expiry", 1) \in DOMAIN scheduledNotifications
  /\ Cardinality(DOMAIN timers) = 1
  /\ firedNotifications # {}


\* C25: at most one periodic re-scan interval is active, and it is active
\* exactly between a start() and the next stop(): a start step leaves the one
\* interval checkIntervalId names (also when one was running), a stop step
\* leaves none, and no other step adds or removes an interval.
C25_OneRescanInterval ==
  [][/\ Cardinality(DOMAIN intervals') <= 1
     /\ lastOp'.op = "start" =>
           checkIntervalId' # Null /\ DOMAIN intervals' = {Val(checkIntervalId')}
     /\ lastOp'.op = "stop" => checkIntervalId' = Null /\ DOMAIN intervals' = {}
     /\ lastOp'.op \notin {"start", "stop"} =>
           DOMAIN intervals' = DOMAIN intervals /\ checkIntervalId' = checkIntervalId]_vars

\* start() has just run for the second time in a row.
C25_Witness ==
  /\ lastOp.op = "start" /\ lastOp.again
  /\ checkIntervalId # Null
  /\ intervals[Val(checkIntervalId)] = now + CHECK_INTERVAL_MS
  /\ Cardinality(DOMAIN intervals) = 1


\* The handlers that write persisted codes or settings.
MutatingHandlers ==
  {"ipc:createCode", "ipc:createCodes", "ipc:deleteCode", "ipc:startCode",
   "ipc:cancelCode", "ipc:editStartedAt", "ipc:updateOrders", "ipc:importData",
   "ipc:updateNotificationSettings"}

\* C26: after each IPC handler that writes codes or settings, the code list of
\* the scheduler agrees with the persisted one on id, inputDeadline, startedAt
\* and expiresAt of every code, and the settings of the scheduler are the
\* persisted notification settings.
C26_SchedulerAgreesWithStore ==
  lastOp.op \in MutatingHandlers =>
     /\ Len(codes) = Len(store.codes)
     /\ \A i \in 1..Len(codes) :
           /\ codes[i].id = store.codes[i].id
           /\ codes[i].inputDeadline = store.codes[i].inputDeadline
           /\ codes[i].startedAt = store.codes[i].startedAt
           /\ codes[i].expiresAt = store.codes[i].expiresAt
     /\ settings = Some(store.notificationSettings)

\* The order of a code was rewritten in the store, which the scheduler is not
\* told of, while a timer of that code is pending.
C26_Witness ==
  /\ lastOp.op = "ipc:updateOrders"
  /\ Len(store.codes) = 1 /\ Len(codes) = 1
  /\ store.codes[1].order # codes[1].order
  /\ DOMAIN scheduledNotifications # {}

\* C27: an import of a text that is not JSON or that the schema rejects
\* reports failure with an error message and leaves the store (version, codes,
\* notification settings) and the scheduler (code list, settings, live timers)
\* as they were.
C27_FailedImportChangesNothing ==
  [][(lastOp'.op = "ipc:importData" /\ ~result'.value.success) =>
        /\ result'.value.error # Null
        /\ store' = store
        /\ UNCHANGED <<codes, settings, scheduledNotifications, timers,
                       firedNotifications, checkIntervalId, intervals>>]_vars

\* A text the schema rejects was imported while a timer is pending and the
\* store holds a code.
C27_Witness ==
  /\ lastOp.op = "ipc:importData"
  /\ ~result.value.success
  /\ result.value.error = Some("validation error")
  /\ store.codes # <<>>
  /\ DOMAIN scheduledNotifications # {}


\* C28: for a fixed code the status never moves backwards as time passes:
\* 'unused' can only become 'expired', 'active' can only become 'consumed',
\* 'expired' and 'consumed' stay; time alone never takes a code from
\* {unused, expired} to {active, consumed} or back.
C28_StatusOnlyMovesForward ==
  StatusApplied =>
     \A t \in now..(MaxTime + 2) :
        LET later == determineCodeStatus(codes[1], t)
        IN  /\ result.status = "unused" => later \in {"unused", "expired"}
            /\ result.status = "active" => later \in {"active", "consumed"}
            /\ result.status = "expired" => later = "expired"
            /\ result.status = "consumed" => later = "consumed"

\* A code whose startedAt is still ahead and which is active now and consumed
\* later, with its input deadline in between.
C28_Witness ==
  /\ StatusApplied
  /\ result.status = "active"
  /\ codes[1].startedAt # Null /\ now < Val(codes[1].startedAt)
  /\ now < codes[1].inputDeadline
  /\ codes[1].inputDeadline < Val(codes[1].expiresAt)
  /\ determineCodeStatus(codes[1], MaxTime + 1) = "consumed"


\* C29: calculateCoverage returns the same result (hasCoverage, coverageEndAt,
\* remainingMinutes, hasGap, gapStartAt) for every order of the code list,
\* also when several codes have the same interval.
C29_CoverageIgnoresListOrder ==
  CoverageApplied =>
     \A p \in Permutations(1..Len(codes)) :
        calculateCoverage(Permuted(codes, p), now) = result.value

\* Three codes, two of them with the same interval, a third that begins with
\* them and ends later; there is coverage.
C29_Witness ==
  /\ CoverageApplied
  /\ Len(codes) = 3
  /\ codes[1].startedAt # Null /\ codes[2].startedAt # Null /\ codes[3].startedAt # Null
  /\ codes[1].startedAt = codes[2].startedAt /\ codes[1].expiresAt = codes[2].expiresAt
  /\ codes[3].startedAt = codes[1].startedAt
  /\ Val(codes[3].expiresAt) > Val(codes[1].expiresAt)
  /\ result.value.hasCoverage


\* The extension loop of calculateCoverageEnd on a list with an interval
\* containing now: the state it is entered with, the state it is left with,
\* and the number of passes of the while loop.
LoopEntry(ivs, nowTime) ==
  LET containing == getIntervalsContainingNow(ivs, nowTime)
  IN  [coverageEnd |-> Max({ivs[i].end : i \in containing}),
       extended    |-> TRUE,
       used        |-> containing]

LoopExit(ivs, nowTime) == ExtendCoverage(ivs, LoopEntry(ivs, nowTime))

RECURSIVE LoopPasses(_, _)
LoopPasses(ivs, st) ==
  IF st.extended
    THEN 1 + LoopPasses(ivs, ScanIntervals(ivs, 1, [st EXCEPT !.extended = FALSE]))
    ELSE 0

\* C30: the extension loop ends, after at most one pass per interval and one
\* more, and it ends at a fixed point: an interval that was not absorbed starts
\* strictly after coverageEnd and an absorbed one ends at or before it.  This
\* holds for the sorted list calculateCoverage hands over and for every other
\* order of the same intervals.
C30_ExtensionLoopEndsAtFixedPoint ==
  CoverageApplied =>
     LET sorted == sortIntervalsByStart(extractIntervals(codes, now))
     IN  \A p \in Permutations(1..Len(sorted)) :
            LET ivs == Permuted(sorted, p)
            IN  getIntervalsContainingNow(ivs, now) # {} =>
                   LET st == LoopExit(ivs, now)
                   IN  /\ LoopPasses(ivs, LoopEntry(ivs, now)) <= Len(ivs) + 1
                       /\ ~st.extended
                       /\ \A i \in 1..Len(ivs) :
                             /\ i \notin st.used => ivs[i].start > st.coverageEnd
                             /\ i \in st.used => ivs[i].end <= st.coverageEnd
                       /\ result.value.coverageEndAt =
                             Some(LoopExit(sorted, now).coverageEnd)

\* Three intervals: one contains now, one is absorbed and extends the
\* coverage, one begins after the coverage has ended.
C30_Witness ==
  /\ CoverageApplied
  /\ result.value.hasGap
  /\ LET sorted == sortIntervalsByStart(extractIntervals(codes, now))
     IN  /\ Len(sorted) = 3
         /\ Cardinality(getIntervalsContainingNow(sorted, now)) = 1
         /\ Cardinality(LoopExit(sorted, now).used) = 2
         /\ LoopExit(sorted, now).coverageEnd > LoopEntry(sorted, now).coverageEnd

====
